---- MODULE Spec2Model ----
(***************************************************************************)
(* Metropolis-Hastings sampler of the 4M24 notebooks (Lecture 5).          *)
(*                                                                         *)
(* One call of MH(initial, target_dist, proposal_dist, n) is modelled      *)
(* statement by statement.  Chain positions are integers; density values,  *)
(* the uniform draw and the acceptance ratio are IEEE-like values: a       *)
(* finite rational, +infinity or NaN, written <<kind, num, den>>.          *)
(* The target density is a stateless function that is discovered lazily:   *)
(* the first evaluation at a point fixes the value there (variable pdf).   *)
(***************************************************************************)
EXTENDS Integers, Sequences, FiniteSets, TLC

\* ------------------------------------------------------------------ bounds
MaxN == 2
MaxOff == 1
UDen == 2
MaxPi == 2

\* ------------------------------------------------------- float-like values
RECURSIVE Gcd(_, _)
Gcd(m, k) == IF k = 0 THEN m ELSE Gcd(k, m % k)

Fin(num, den) == LET g == Gcd(num, den) IN <<"fin", num \div g, den \div g>>
Inf == <<"inf", 0, 0>>
NaN == <<"nan", 0, 0>>
NoVal == <<"none", 0, 0>>
Zero == Fin(0, 1)
One == Fin(1, 1)

IsFin(v) == v[1] = "fin"
IsPos(v) == v = Inf \/ (IsFin(v) /\ v[2] > 0)

\* a < b on float-like values; every comparison with NaN is false
Lt(a, b) ==
    CASE a = NaN \/ b = NaN -> FALSE
      [] a = Inf -> FALSE
      [] b = Inf -> TRUE
      [] OTHER -> a[2] * b[3] < b[2] * a[3]

\* u <= a as a strict comparison (used only as a faulty variant of Le)
LeStrict(a, b) == Lt(a, b)
\* a <= b on float-like values; every comparison with NaN is false
Le(a, b) ==
    CASE a = NaN \/ b = NaN -> FALSE
      [] b = Inf -> TRUE
      [] a = Inf -> FALSE
      [] OTHER -> a[2] * b[3] <= b[2] * a[3]

\* faulty variant of Div: a positive value over zero gives nan instead of inf
DivZeroNaN(p, q) ==
    CASE p = NaN \/ q = NaN -> NaN
      [] p = Inf /\ q = Inf -> NaN
      [] p = Inf /\ IsFin(q) /\ q[2] = 0 -> NaN
      [] p = Inf -> Inf
      [] q = Inf -> Zero
      [] q[2] = 0 -> NaN
      [] OTHER -> Fin(p[2] * q[3], p[3] * q[2])

\* faulty variant of Div: zero over zero gives 0 instead of nan
DivZeroZero(p, q) ==
    CASE p = NaN \/ q = NaN -> NaN
      [] p = Inf /\ q = Inf -> NaN
      [] p = Inf -> Inf
      [] q = Inf -> Zero
      [] q[2] = 0 /\ p[2] = 0 -> Zero
      [] q[2] = 0 -> Inf
      [] OTHER -> Fin(p[2] * q[3], p[3] * q[2])

\* numpy float64 division p / q of non-negative values: x/0 is inf, 0/0 and
\* inf/inf are nan (a RuntimeWarning, not an exception)
Div(p, q) ==
    CASE p = NaN \/ q = NaN -> NaN
      [] p = Inf /\ q = Inf -> NaN
      [] p = Inf -> Inf
      [] q = Inf -> Zero
      [] q[2] = 0 /\ p[2] = 0 -> NaN
      [] q[2] = 0 -> Inf
      [] OTHER -> Fin(p[2] * q[3], p[3] * q[2])

\* faulty variant of PyMin: the arguments swapped, min(1, r), which is 1
\* when r is nan
PyMinSwapped(r, c) == IF Lt(r, c) THEN r ELSE c

\* Python's min(r, 1): the first argument is kept unless the second is
\* strictly smaller, so min(nan, 1) is nan
PyMin(r, c) == IF Lt(c, r) THEN c ELSE r

\* faulty variant of Ratio: the density ratio is used without the cap at 1
RatioUncapped(vy, vx) == Div(vy, vx)

\* faulty variant of Ratio: the quotient is taken the wrong way round
RatioInverted(vy, vx) == PyMin(Div(vx, vy), One)

\* the expression min(target_dist.pdf(y)/target_dist.pdf(x), 1)
Ratio(vy, vx) == PyMin(Div(vy, vx), One)

\* ------------------------------------------------------------ input sets
\* the notebook starts the chain at initial = 1; the density is discovered
\* relative to the visited points, so other starting points add no behaviour
Initials == {1}
Ns == (-1) .. MaxN
Sigmas == {-1, 0, 1}
Offsets == (-MaxOff) .. MaxOff
Uniforms == {Fin(k, UDen) : k \in 0 .. UDen}
PiVals == {Fin(v, 1) : v \in 0 .. MaxPi} \cup {Inf, NaN}
Raises == <<"raise", 0, 0>>
NoResult == <<"none", <<>>>>
Variants == {"dist", "std"}

\* the binding of the module-level name n: the notebooks assign none
Unbound == <<"unbound", 0>>
GlobalNs == {Unbound} \cup {<<"int", k>> : k \in 0 .. 1}

\* two chains, each one call of MH, run with interleaved steps
Chains == {1, 2}

\* no chains started
NoCfg == [n |-> 0, sigma |-> 0, seed |-> 0]
NoChain == [pc |-> "off", x |-> 0, y |-> 0, u |-> NoVal, i |-> 0,
            samples |-> <<>>, got |-> <<>>]
ChainsOff == [c \in Chains |-> NoChain]

\* the importance-sampling cells not yet run
NoImp == [pc |-> "off", target |-> "expon", mu |-> 0, N |-> 0,
          qx_samples |-> <<>>, inv |-> NoVal, ws |-> <<>>, MCE |-> NoVal]

\* the two MH variants not yet called side by side
NoPair == [pc |-> "off", initial |-> 0, n |-> 0, sigma |-> 0, i |-> 0,
           pdf |-> <<>>,
           d |-> 0, u |-> NoVal, xa |-> 0, ya |-> 0, sa |-> <<>>,
           xb |-> 0, yb |-> 0, sb |-> <<>>]

\* no call of a series of calls made yet: no list object exists
NoCalls == [pc |-> "off", heap |-> <<>>, rets |-> <<>>, samples |-> 0,
            n |-> 0, i |-> 0, x |-> 0]

VARIABLES pc, variant, initial, n, sigma, pdf, x, y, u, a, py, px, i, samples,
          xprev, offs, nProp, nUnif, nEval, result, err, gn, cfg, ch, rng,
          imp, pr, mhc

\* the state outside the call: the module-level name n, and the two chains
\* with the process-wide random generator they draw from
outer == <<gn, cfg, ch, rng, imp, pr, mhc>>

\* the state of the one call modelled step by step
single == <<pc, variant, initial, n, sigma, pdf, x, y, u, a, py, px, i, samples,
            xprev, offs, nProp, nUnif, nEval, result, err>>

vars == <<pc, variant, initial, n, sigma, pdf, x, y, u, a, py, px, i, samples,
          xprev, offs, nProp, nUnif, nEval, result, err, gn, cfg, ch, rng,
          imp, pr, mhc>>

Init ==
    /\ pc = "idle"
    /\ variant = "dist"
    /\ initial = 0 /\ n = 0 /\ sigma = 1
    /\ pdf = <<>>
    /\ x = 0 /\ y = 0
    /\ u = NoVal /\ a = NoVal /\ py = NoVal /\ px = NoVal
    /\ i = 0
    /\ samples = <<>>
    /\ xprev = 0
    /\ offs = <<>>
    /\ nProp = 0 /\ nUnif = 0 /\ nEval = 0
    /\ result = NoResult
    /\ err = "none"
    /\ gn = Unbound
    /\ cfg = NoCfg /\ ch = ChainsOff /\ rng = 0
    /\ imp = NoImp /\ pr = NoPair /\ mhc = NoCalls

\* def MH(initial, target_dist, proposal_dist, n): samples = []; x = initial
Call ==
    /\ pc = "idle"
    /\ \E x0 \in Initials, cnt \in Ns, sg \in Sigmas, vr \in Variants :
          /\ variant' = vr
          /\ initial' = x0
          /\ n' = cnt
          /\ sigma' = sg
          /\ x' = x0
          /\ xprev' = x0
    /\ samples' = <<>>
    /\ pc' = "loop"
    /\ UNCHANGED <<pdf, y, u, a, py, px, i, offs, nProp, nUnif, nEval,
                   result, err>>
    /\ UNCHANGED outer

\* faulty variant of LoopNext: the loop runs over range(n + 1)
LoopNextInclusive ==
    /\ pc = "loop"
    /\ i <= n
    /\ i' = i + 1
    /\ xprev' = x
    /\ pc' = "propose"
    /\ UNCHANGED <<variant, initial, n, sigma, pdf, x, y, u, a, py, px, samples,
                   offs, nProp, nUnif, nEval, result, err>>
    /\ UNCHANGED outer

\* faulty variant of LoopNext: the loop runs over range(abs(n))
LoopNextAbs ==
    /\ pc = "loop"
    /\ i < (IF n < 0 THEN -n ELSE n)
    /\ i' = i + 1
    /\ xprev' = x
    /\ pc' = "propose"
    /\ UNCHANGED <<variant, initial, n, sigma, pdf, x, y, u, a, py, px, samples,
                   offs, nProp, nUnif, nEval, result, err>>
    /\ UNCHANGED outer

\* for _ in range(n): one more iteration while fewer than n have run
LoopNext ==
    /\ pc = "loop"
    /\ i < n
    /\ i' = i + 1
    /\ xprev' = x
    /\ pc' = "propose"
    /\ UNCHANGED <<variant, initial, n, sigma, pdf, x, y, u, a, py, px, samples,
                   offs, nProp, nUnif, nEval, result, err>>
    /\ UNCHANGED outer

\* faulty variant of Return: the loop is left early (a break) as soon as an
\* iteration did not move the chain
ReturnEarly ==
    /\ pc = "loop"
    /\ (~(i < n) \/ (i >= 1 /\ x = xprev))
    /\ result' = <<"seq", samples>>
    /\ pc' = "done"
    /\ UNCHANGED <<variant, initial, n, sigma, pdf, x, y, u, a, py, px, i, samples,
                   xprev, offs, nProp, nUnif, nEval, err>>
    /\ UNCHANGED outer

\* range(n) exhausted (at once when n <= 0): return samples
Return ==
    /\ pc = "loop"
    /\ ~(i < n)
    /\ result' = <<"seq", samples>>
    /\ pc' = "done"
    /\ UNCHANGED <<variant, initial, n, sigma, pdf, x, y, u, a, py, px, i, samples,
                   xprev, offs, nProp, nUnif, nEval, err>>
    /\ UNCHANGED outer

\* faulty variant of Propose: the candidate is formed from the starting
\* value instead of the current state
ProposeFromInitial ==
    /\ pc = "propose"
    /\ variant = "dist"
    /\ sigma >= 0
    /\ \E d \in (IF sigma = 0 THEN {0} ELSE Offsets) :
          /\ y' = initial + d
          /\ offs' = Append(offs, d)
    /\ nProp' = nProp + 1
    /\ pc' = "uniform"
    /\ UNCHANGED <<variant, initial, n, sigma, pdf, x, u, a, py, px, i,
                   samples, xprev, nUnif, nEval, result, err>>
    /\ UNCHANGED outer

\* y = x + proposal_dist.rvs() with proposal_dist = norm(0, sigma): the
\* draw is an offset around 0 that is added to x; scale 0 gives offset 0
Propose ==
    /\ pc = "propose"
    /\ variant = "dist"
    /\ sigma >= 0
    /\ \E d \in (IF sigma = 0 THEN {0} ELSE Offsets) :
          /\ y' = x + d
          /\ offs' = Append(offs, d)
    /\ nProp' = nProp + 1
    /\ pc' = "uniform"
    /\ UNCHANGED <<variant, initial, n, sigma, pdf, x, u, a, py, px, i,
                   samples, xprev, nUnif, nEval, result, err>>
    /\ UNCHANGED outer

\* y = norm.rvs(loc=x, scale=proposal_std): the draw is centred on x; the
\* offset recorded is the candidate minus the current state
ProposeLoc ==
    /\ pc = "propose"
    /\ variant = "std"
    /\ sigma >= 0
    /\ \E c \in (IF sigma = 0 THEN {x} ELSE {x + d : d \in Offsets}) :
          /\ y' = c
          /\ offs' = Append(offs, c - x)
    /\ nProp' = nProp + 1
    /\ pc' = "uniform"
    /\ UNCHANGED <<variant, initial, n, sigma, pdf, x, u, a, py, px, i,
                   samples, xprev, nUnif, nEval, result, err>>
    /\ UNCHANGED outer

\* the draw with a negative scale: scipy's rvs raises ValueError ("Domain
\* error in arguments"), which leaves MH from inside the first iteration
ProposeFail ==
    /\ pc = "propose"
    /\ sigma < 0
    /\ nProp' = nProp + 1
    /\ err' = "ValueError"
    /\ pc' = "error"
    /\ UNCHANGED <<variant, initial, n, sigma, pdf, x, y, u, a, py, px, i,
                   samples, xprev, offs, nUnif, nEval, result>>
    /\ UNCHANGED outer

\* faulty variant of DrawU: u is drawn in the first iteration only and
\* reused afterwards
DrawUOnce ==
    /\ pc = "uniform"
    /\ IF i = 1
          THEN (\E v \in Uniforms : u' = v) /\ nUnif' = nUnif + 1
          ELSE u' = u /\ nUnif' = nUnif
    /\ pc' = "evalY"
    /\ UNCHANGED <<variant, initial, n, sigma, pdf, x, y, a, py, px, i, samples,
                   xprev, offs, nProp, nEval, result, err>>
    /\ UNCHANGED outer

\* u = uniform.rvs()
DrawU ==
    /\ pc = "uniform"
    /\ \E v \in Uniforms : u' = v
    /\ nUnif' = nUnif + 1
    /\ pc' = "evalY"
    /\ UNCHANGED <<variant, initial, n, sigma, pdf, x, y, a, py, px, i, samples,
                   xprev, offs, nProp, nEval, result, err>>
    /\ UNCHANGED outer

\* the outcomes target_dist.pdf(p) can have: the value already seen at p,
\* or, at a new point, any density value or a raised exception
PdfAt(p) == IF p \in DOMAIN pdf THEN {pdf[p]} ELSE PiVals \cup {Raises}

Remember(p, v) == IF p \in DOMAIN pdf THEN pdf ELSE (p :> v) @@ pdf

\* target_dist.pdf(y), the left operand of the division
EvalY ==
    /\ pc = "evalY"
    /\ \E v \in PdfAt(y) :
          /\ v # Raises
          /\ py' = v
          /\ pdf' = Remember(y, v)
    /\ nEval' = nEval + 1
    /\ pc' = "evalX"
    /\ UNCHANGED <<variant, initial, n, sigma, x, y, u, a, px, i, samples, xprev,
                   offs, nProp, nUnif, result, err>>
    /\ UNCHANGED outer

\* faulty variant of EvalX: the density at x is taken from the previous
\* iteration when it is known, and evaluated only at a new point
EvalXCached ==
    /\ pc = "evalX"
    /\ \E v \in PdfAt(x) :
          /\ v # Raises
          /\ px' = v
          /\ pdf' = Remember(x, v)
    /\ nEval' = (IF x \in DOMAIN pdf THEN nEval ELSE nEval + 1)
    /\ pc' = "ratio"
    /\ UNCHANGED <<variant, initial, n, sigma, x, y, u, a, py, i, samples, xprev,
                   offs, nProp, nUnif, result, err>>
    /\ UNCHANGED outer

\* target_dist.pdf(x), the right operand of the division
EvalX ==
    /\ pc = "evalX"
    /\ \E v \in PdfAt(x) :
          /\ v # Raises
          /\ px' = v
          /\ pdf' = Remember(x, v)
    /\ nEval' = nEval + 1
    /\ pc' = "ratio"
    /\ UNCHANGED <<variant, initial, n, sigma, x, y, u, a, py, i, samples, xprev,
                   offs, nProp, nUnif, result, err>>
    /\ UNCHANGED outer

\* faulty variant of EvalFail: the failed evaluation is tried a second time
\* before the exception is let through
EvalFailRetry ==
    /\ pc \in {"evalY", "evalX"}
    /\ Raises \in PdfAt(IF pc = "evalY" THEN y ELSE x)
    /\ nEval' = nEval + 2
    /\ err' = "DensityError"
    /\ pc' = "error"
    /\ UNCHANGED <<variant, initial, n, sigma, pdf, x, y, u, a, py, px, i, samples,
                   xprev, offs, nProp, nUnif, result>>
    /\ UNCHANGED outer

\* faulty variant of EvalFail: the exception is caught and the elements
\* appended so far are handed to the caller
EvalFailPartial ==
    /\ pc \in {"evalY", "evalX"}
    /\ Raises \in PdfAt(IF pc = "evalY" THEN y ELSE x)
    /\ nEval' = nEval + 1
    /\ err' = "DensityError"
    /\ result' = <<"seq", samples>>
    /\ pc' = "error"
    /\ UNCHANGED <<variant, initial, n, sigma, pdf, x, y, u, a, py, px, i, samples,
                   xprev, offs, nProp, nUnif>>
    /\ UNCHANGED outer

\* target_dist.pdf raises: the exception leaves MH, samples is dropped
EvalFail ==
    /\ pc \in {"evalY", "evalX"}
    /\ Raises \in PdfAt(IF pc = "evalY" THEN y ELSE x)
    /\ nEval' = nEval + 1
    /\ err' = "DensityError"
    /\ pc' = "error"
    /\ UNCHANGED <<variant, initial, n, sigma, pdf, x, y, u, a, py, px, i, samples,
                   xprev, offs, nProp, nUnif, result>>
    /\ UNCHANGED outer

\* a = min(target_dist.pdf(y)/target_dist.pdf(x), 1)
AcceptanceRatio ==
    /\ pc = "ratio"
    /\ a' = Ratio(py, px)
    /\ pc' = "decide"
    /\ UNCHANGED <<variant, initial, n, sigma, pdf, x, y, u, py, px, i, samples,
                   xprev, offs, nProp, nUnif, nEval, result, err>>
    /\ UNCHANGED outer

\* faulty variant of Decide: the test draws a fresh uniform number of its
\* own, if uniform.rvs() <= a, instead of using u
DecideUnseeded ==
    /\ pc = "decide"
    /\ \E v \in Uniforms :
          IF Le(v, a)
             THEN samples' = Append(samples, y) /\ x' = y
             ELSE samples' = Append(samples, x) /\ x' = x
    /\ pc' = "loop"
    /\ UNCHANGED <<variant, initial, n, sigma, pdf, y, u, a, py, px, i, xprev,
                   offs, nProp, nUnif, nEval, result, err>>
    /\ UNCHANGED outer

\* faulty variant of Decide: the accepted candidate is also written to the
\* caller's starting value
DecideClobbersInitial ==
    /\ pc = "decide"
    /\ IF Le(u, a)
          THEN samples' = Append(samples, y) /\ x' = y /\ initial' = y
          ELSE samples' = Append(samples, x) /\ x' = x /\ initial' = initial
    /\ pc' = "loop"
    /\ UNCHANGED <<variant, n, sigma, pdf, y, u, a, py, px, i, xprev,
                   offs, nProp, nUnif, nEval, result, err>>
    /\ UNCHANGED outer

\* faulty variant of Decide: nothing is appended on a rejection
DecideNoAppend ==
    /\ pc = "decide"
    /\ IF Le(u, a)
          THEN samples' = Append(samples, y) /\ x' = y
          ELSE samples' = samples /\ x' = x
    /\ pc' = "loop"
    /\ UNCHANGED <<variant, initial, n, sigma, pdf, y, u, a, py, px, i, xprev,
                   offs, nProp, nUnif, nEval, result, err>>
    /\ UNCHANGED outer

\* faulty variant of Decide: on acceptance the old state is appended
DecideStale ==
    /\ pc = "decide"
    /\ IF Le(u, a)
          THEN samples' = Append(samples, x) /\ x' = y
          ELSE samples' = Append(samples, x) /\ x' = x
    /\ pc' = "loop"
    /\ UNCHANGED <<variant, initial, n, sigma, pdf, y, u, a, py, px, i, xprev,
                   offs, nProp, nUnif, nEval, result, err>>
    /\ UNCHANGED outer

\* faulty variant of Decide: on rejection the candidate is appended
DecideRejectAppendsY ==
    /\ pc = "decide"
    /\ IF Le(u, a)
          THEN samples' = Append(samples, y) /\ x' = y
          ELSE samples' = Append(samples, y) /\ x' = x
    /\ pc' = "loop"
    /\ UNCHANGED <<variant, initial, n, sigma, pdf, y, u, a, py, px, i, xprev,
                   offs, nProp, nUnif, nEval, result, err>>
    /\ UNCHANGED outer

\* if u <= a: samples.append(y); x = y   else: samples.append(x)
Decide ==
    /\ pc = "decide"
    /\ IF Le(u, a)
          THEN samples' = Append(samples, y) /\ x' = y
          ELSE samples' = Append(samples, x) /\ x' = x
    /\ pc' = "loop"
    /\ UNCHANGED <<variant, initial, n, sigma, pdf, y, u, a, py, px, i, xprev,
                   offs, nProp, nUnif, nEval, result, err>>
    /\ UNCHANGED outer

Next ==
    \/ Call
    \/ LoopNext
    \/ Return
    \/ Propose
    \/ ProposeLoc
    \/ ProposeFail
    \/ DrawU
    \/ EvalY
    \/ EvalX
    \/ EvalFail
    \/ AcceptanceRatio
    \/ Decide

Spec == Init /\ [][Next]_vars

\* the interpreter runs the one thread of the call on: a statement that can
\* execute does execute
SpecFair == Spec /\ WF_vars(Next)


\* ---------------------------------------------------------------------
\* The Lecture 5 notebook whose MH names its fourth parameter N but loops
\* over range(n): n is then the module-level name, not the argument.

\* the kernel state before the call: n is unbound in a fresh kernel, or
\* bound to whatever an earlier cell execution left
InitGlobal ==
    /\ pc = "idle"
    /\ variant = "dist"
    /\ initial = 0 /\ n = 0 /\ sigma = 1
    /\ pdf = <<>>
    /\ x = 0 /\ y = 0
    /\ u = NoVal /\ a = NoVal /\ py = NoVal /\ px = NoVal
    /\ i = 0
    /\ samples = <<>>
    /\ xprev = 0
    /\ offs = <<>>
    /\ nProp = 0 /\ nUnif = 0 /\ nEval = 0
    /\ result = NoResult
    /\ err = "none"
    /\ gn \in GlobalNs
    /\ cfg = NoCfg /\ ch = ChainsOff /\ rng = 0
    /\ imp = NoImp /\ pr = NoPair /\ mhc = NoCalls

\* def MH(initial, target_dist, proposal_dist, N): samples = []; x = initial
\* (the variable n of the model holds the argument N)
CallGlobal ==
    /\ pc = "idle"
    /\ \E x0 \in Initials, cnt \in Ns, sg \in Sigmas :
          /\ initial' = x0
          /\ n' = cnt
          /\ sigma' = sg
          /\ x' = x0
          /\ xprev' = x0
    /\ variant' = "dist"
    /\ samples' = <<>>
    /\ pc' = "loop"
    /\ UNCHANGED <<pdf, y, u, a, py, px, i, offs, nProp, nUnif, nEval,
                   result, err>>
    /\ UNCHANGED outer

\* for _ in range(n) with n unbound: NameError before the first iteration
LoopNameError ==
    /\ pc = "loop"
    /\ gn = Unbound
    /\ err' = "NameError"
    /\ pc' = "error"
    /\ UNCHANGED <<variant, initial, n, sigma, pdf, x, y, u, a, py, px, i,
                   samples, xprev, offs, nProp, nUnif, nEval, result>>
    /\ UNCHANGED outer

\* for _ in range(n): one more iteration while fewer than the global n ran
LoopNextGlobal ==
    /\ pc = "loop"
    /\ gn # Unbound
    /\ i < gn[2]
    /\ i' = i + 1
    /\ xprev' = x
    /\ pc' = "propose"
    /\ UNCHANGED <<variant, initial, n, sigma, pdf, x, y, u, a, py, px, samples,
                   offs, nProp, nUnif, nEval, result, err>>
    /\ UNCHANGED outer

\* range(n) over the global n exhausted: return samples
ReturnGlobal ==
    /\ pc = "loop"
    /\ gn # Unbound
    /\ ~(i < gn[2])
    /\ result' = <<"seq", samples>>
    /\ pc' = "done"
    /\ UNCHANGED <<variant, initial, n, sigma, pdf, x, y, u, a, py, px, i, samples,
                   xprev, offs, nProp, nUnif, nEval, err>>
    /\ UNCHANGED outer

NextGlobal ==
    \/ CallGlobal
    \/ LoopNameError
    \/ LoopNextGlobal
    \/ ReturnGlobal
    \/ Propose
    \/ ProposeFail
    \/ DrawU
    \/ EvalY
    \/ EvalX
    \/ EvalFail
    \/ AcceptanceRatio
    \/ Decide

SpecGlobal == InitGlobal /\ [][NextGlobal]_vars

\* ---- two chains drawing from the process-wide generator ----

\* proposal_dist.rvs() and uniform.rvs() are called without random_state, so
\* every draw of every chain comes from numpy's one global generator. The
\* generator is a deterministic function of its state; it is modelled by a
\* small congruential generator with the same interface: a draw reads the
\* state and advances it.
RngMod == 8
Seeds == 0 .. (RngMod - 1)
NextState(s) == (5 * s + 3) % RngMod

\* the offset a normal draw yields in generator state s (scale 1)
NormalDraw(s) == (s % (2 * MaxOff + 1)) - MaxOff

\* the value uniform.rvs() yields in generator state s
UniformDraw(s) == Fin((s \div 2) % (UDen + 1), UDen)

\* target_dist = norm(loc=0, scale=1): its pdf is positive, symmetric about
\* 0 and strictly decreasing in |p|; a rational density of that shape
TargetPdf(p) == Fin(1, 1 + p * p)

\* the chains a driver starts: same arguments, one generator seeded once
InitChains ==
    /\ pc = "idle"
    /\ variant = "dist"
    /\ initial = 0 /\ n = 0 /\ sigma = 1
    /\ pdf = <<>>
    /\ x = 0 /\ y = 0
    /\ u = NoVal /\ a = NoVal /\ py = NoVal /\ px = NoVal
    /\ i = 0
    /\ samples = <<>>
    /\ xprev = 0
    /\ offs = <<>>
    /\ nProp = 0 /\ nUnif = 0 /\ nEval = 0
    /\ result = NoResult
    /\ err = "none"
    /\ gn = Unbound
    /\ imp = NoImp /\ pr = NoPair /\ mhc = NoCalls
    /\ \E cnt \in 0 .. MaxN, sg \in {t \in Sigmas : t >= 0}, sd \in Seeds :
          /\ cfg = [n |-> cnt, sigma |-> sg, seed |-> sd]
          /\ rng = sd
    /\ \E x0 \in Initials :
          ch = [c \in Chains |-> [pc |-> "loop", x |-> x0, y |-> x0, u |-> NoVal,
                                  i |-> 0, samples |-> <<>>, got |-> <<>>]]

\* chain c: for _ in range(n); y = x + proposal_dist.rvs()
ChainPropose(c) ==
    /\ ch[c].pc = "loop"
    /\ ch[c].i < cfg.n
    /\ ch' = [ch EXCEPT ![c].y = ch[c].x + cfg.sigma * NormalDraw(rng),
                        ![c].i = ch[c].i + 1,
                        ![c].got = Append(ch[c].got, rng),
                        ![c].pc = "uniform"]
    /\ rng' = NextState(rng)
    /\ UNCHANGED <<gn, cfg, imp, pr, mhc>>
    /\ UNCHANGED single

\* chain c: u = uniform.rvs()
ChainDrawU(c) ==
    /\ ch[c].pc = "uniform"
    /\ ch' = [ch EXCEPT ![c].u = UniformDraw(rng),
                        ![c].got = Append(ch[c].got, rng),
                        ![c].pc = "decide"]
    /\ rng' = NextState(rng)
    /\ UNCHANGED <<gn, cfg, imp, pr, mhc>>
    /\ UNCHANGED single

\* the state chain c moves to: a = min(pdf(y)/pdf(x), 1); if u <= a: y else x
ChainMove(cx, cy, cu) ==
    IF Le(cu, Ratio(TargetPdf(cy), TargetPdf(cx))) THEN cy ELSE cx

\* faulty variant of ChainDecide: x is a module-level name, so the decision
\* of one chain moves the other chain as well
ChainDecideShared(c) ==
    /\ ch[c].pc = "decide"
    /\ LET nx == ChainMove(ch[c].x, ch[c].y, ch[c].u)
       IN  ch' = [d \in Chains |->
                    IF d = c
                      THEN [ch[c] EXCEPT !.samples = Append(ch[c].samples, nx),
                                         !.x = nx, !.pc = "loop"]
                      ELSE [ch[d] EXCEPT !.x = nx]]
    /\ UNCHANGED <<gn, cfg, rng, imp, pr, mhc>>
    /\ UNCHANGED single

\* chain c: samples.append(y); x = y, or samples.append(x)
ChainDecide(c) ==
    /\ ch[c].pc = "decide"
    /\ LET nx == ChainMove(ch[c].x, ch[c].y, ch[c].u)
       IN  ch' = [ch EXCEPT ![c].samples = Append(ch[c].samples, nx),
                            ![c].x = nx,
                            ![c].pc = "loop"]
    /\ UNCHANGED <<gn, cfg, rng, imp, pr, mhc>>
    /\ UNCHANGED single

\* chain c: return samples
ChainReturn(c) ==
    /\ ch[c].pc = "loop"
    /\ ~(ch[c].i < cfg.n)
    /\ ch' = [ch EXCEPT ![c].pc = "done"]
    /\ UNCHANGED <<gn, cfg, rng, imp, pr, mhc>>
    /\ UNCHANGED single

NextChains ==
    \E c \in Chains :
        \/ ChainPropose(c)
        \/ ChainDrawU(c)
        \/ ChainDecide(c)
        \/ ChainReturn(c)

SpecChains == InitChains /\ [][NextChains]_vars

\* ---- importance sampling ----

MaxIS == 2

\* the threshold mu (25 in the lifetime example, 7 in the tail example)
Mus == {1, 2}

\* the density p of the example: expon.pdf or norm.pdf(loc=0, scale=1)
Targets == {"expon", "norm"}

RECURSIVE Pow2(_)
Pow2(k) == IF k = 0 THEN 1 ELSE 2 * Pow2(k - 1)

\* p(x): expon.pdf is 0 below 0 and decays from 1 at 0; norm.pdf(x, 0, 1)
\* has the shape of TargetPdf
PPdf(t, p) ==
    IF t = "expon"
       THEN (IF p < 0 THEN Zero ELSE Fin(1, Pow2(p)))
       ELSE TargetPdf(p)

\* q(x) = norm.pdf(x, loc=mu, scale=1): the bell shape centred on mu
QPdf(p, m) == Fin(1, 1 + (p - m) * (p - m))

\* p + q and p * q on non-negative float-like values
Add(p, q) ==
    CASE p = NaN \/ q = NaN -> NaN
      [] p = Inf \/ q = Inf -> Inf
      [] OTHER -> Fin(p[2] * q[3] + q[2] * p[3], p[3] * q[3])

Times(p, q) ==
    CASE p = NaN \/ q = NaN -> NaN
      [] p = Inf -> (IF q = Zero THEN NaN ELSE Inf)
      [] q = Inf -> (IF p = Zero THEN NaN ELSE Inf)
      [] OTHER -> Fin(p[2] * q[2], p[3] * q[3])

\* sum(ws): the built-in starts from 0 and adds from the left
RECURSIVE Sum(_)
Sum(ws) ==
    IF ws = <<>> THEN Zero
    ELSE Add(Sum(SubSeq(ws, 1, Len(ws) - 1)), ws[Len(ws)])

\* faulty variant of importance: the boundary x = mu gets weight 0
importanceStrict(p, m, t) ==
    IF p > m THEN Div(PPdf(t, p), QPdf(p, m)) ELSE Zero

\* def importance(x): if x>=mu: return p.pdf(x)/norm.pdf(x,loc=mu,scale=1)
\* else: return 0
importance(p, m, t) ==
    IF p >= m THEN Div(PPdf(t, p), QPdf(p, m)) ELSE Zero

\* the state of every other part of the notebooks
notImp == <<gn, cfg, ch, rng, pr, mhc>>

\* mu = ...; N = ...
ISParams ==
    /\ imp.pc = "off"
    /\ \E m \in Mus, cnt \in 0 .. MaxIS, t \in Targets :
          imp' = [imp EXCEPT !.pc = "draw", !.mu = m, !.N = cnt, !.target = t]
    /\ UNCHANGED single
    /\ UNCHANGED notImp

\* qx_samples = norm.rvs(size=N, loc=mu, scale=1)
ISDraw ==
    /\ imp.pc = "draw"
    /\ \E qs \in [1 .. imp.N -> {imp.mu + d : d \in Offsets}] :
          imp' = [imp EXCEPT !.pc = "inv", !.qx_samples = qs]
    /\ UNCHANGED single
    /\ UNCHANGED notImp

\* (1/N), the left operand of the product, for N # 0
ISInverse ==
    /\ imp.pc = "inv"
    /\ imp.N # 0
    /\ imp' = [imp EXCEPT !.pc = "weigh", !.inv = Div(One, Fin(imp.N, 1))]
    /\ UNCHANGED single
    /\ UNCHANGED notImp

\* (1/N) with N = 0: ZeroDivisionError, before any weight is computed
ISInverseFail ==
    /\ imp.pc = "inv"
    /\ imp.N = 0
    /\ imp' = [imp EXCEPT !.pc = "error"]
    /\ UNCHANGED single
    /\ UNCHANGED notImp

\* [importance(x) for x in qx_samples]: the next element
ISWeigh ==
    /\ imp.pc = "weigh"
    /\ Len(imp.ws) < Len(imp.qx_samples)
    /\ imp' = [imp EXCEPT !.ws =
                 Append(imp.ws, importance(imp.qx_samples[Len(imp.ws) + 1],
                                           imp.mu, imp.target))]
    /\ UNCHANGED single
    /\ UNCHANGED notImp

\* the number of samples that lie at or above mu
RECURSIVE CountAbove(_, _)
CountAbove(qs, m) ==
    IF qs = <<>> THEN 0
    ELSE CountAbove(SubSeq(qs, 1, Len(qs) - 1), m)
           + (IF qs[Len(qs)] >= m THEN 1 ELSE 0)

\* faulty variant of ISEstimate: the sum is divided by the number of samples
\* with a non-zero weight
ISEstimateNonZero ==
    /\ imp.pc = "weigh"
    /\ Len(imp.ws) = Len(imp.qx_samples)
    /\ imp' = [imp EXCEPT !.pc = "done",
                 !.MCE = Div(Sum(imp.ws),
                             Fin(CountAbove(imp.qx_samples, imp.mu), 1))]
    /\ UNCHANGED single
    /\ UNCHANGED notImp

\* MCE = (1/N) * sum([...])
ISEstimate ==
    /\ imp.pc = "weigh"
    /\ Len(imp.ws) = Len(imp.qx_samples)
    /\ imp' = [imp EXCEPT !.pc = "done", !.MCE = Times(imp.inv, Sum(imp.ws))]
    /\ UNCHANGED single
    /\ UNCHANGED notImp

NextIS ==
    \/ ISParams
    \/ ISDraw
    \/ ISInverse
    \/ ISInverseFail
    \/ ISWeigh
    \/ ISEstimate

SpecIS == Init /\ [][NextIS]_vars

\* ---- the two MH variants called side by side on the same inputs ----

\* the state of every other part of the notebooks
notPair == <<gn, cfg, ch, rng, imp, mhc>>

\* MH(initial, target, norm(0, sigma), n) and MH(initial, target, sigma, n):
\* samples = []; x = initial in each
PairCall ==
    /\ pr.pc = "off"
    /\ \E x0 \in Initials, cnt \in Ns, sg \in Sigmas :
          pr' = [pr EXCEPT !.pc = "loop", !.initial = x0, !.n = cnt,
                           !.sigma = sg, !.xa = x0, !.xb = x0]
    /\ UNCHANGED single
    /\ UNCHANGED notPair

\* for _ in range(n), in both
PairLoop ==
    /\ pr.pc = "loop"
    /\ pr.i < pr.n
    /\ pr' = [pr EXCEPT !.pc = "propose", !.i = pr.i + 1]
    /\ UNCHANGED single
    /\ UNCHANGED notPair

\* return samples, in both
PairReturn ==
    /\ pr.pc = "loop"
    /\ ~(pr.i < pr.n)
    /\ pr' = [pr EXCEPT !.pc = "done"]
    /\ UNCHANGED single
    /\ UNCHANGED notPair

\* the candidate norm.rvs(loc=p, scale=sigma) returns when its distance from
\* p is the offset d
LocDraw(p, d) == CHOOSE c \in {p + e : e \in Offsets} : c - p = d

\* faulty variant of PairPropose: the second variant adds x to a draw that
\* is already centred on x
PairProposeLocPlusX ==
    /\ pr.pc = "propose"
    /\ pr.sigma >= 0
    /\ \E d \in (IF pr.sigma = 0 THEN {0} ELSE Offsets) :
          pr' = [pr EXCEPT !.pc = "uniform", !.d = d,
                           !.ya = pr.xa + d,
                           !.yb = pr.xb + LocDraw(pr.xb, d)]
    /\ UNCHANGED single
    /\ UNCHANGED notPair

\* y = x + proposal_dist.rvs() in the first variant and
\* y = norm.rvs(loc=x, scale=proposal_std) in the second, the two draws
\* having the same offset d
PairPropose ==
    /\ pr.pc = "propose"
    /\ pr.sigma >= 0
    /\ \E d \in (IF pr.sigma = 0 THEN {0} ELSE Offsets) :
          pr' = [pr EXCEPT !.pc = "uniform", !.d = d,
                           !.ya = pr.xa + d,
                           !.yb = LocDraw(pr.xb, d)]
    /\ UNCHANGED single
    /\ UNCHANGED notPair

\* a negative scale: rvs raises ValueError in both
PairProposeFail ==
    /\ pr.pc = "propose"
    /\ pr.sigma < 0
    /\ pr' = [pr EXCEPT !.pc = "error"]
    /\ UNCHANGED single
    /\ UNCHANGED notPair

\* u = uniform.rvs(), the same draw for both
PairDrawU ==
    /\ pr.pc = "uniform"
    /\ \E v \in Uniforms : pr' = [pr EXCEPT !.pc = "decide", !.u = v]
    /\ UNCHANGED single
    /\ UNCHANGED notPair

\* the points at which this iteration evaluates the density for the first time
PairNew == {pr.ya, pr.xa, pr.yb, pr.xb} \ DOMAIN pr.pdf

\* the move of one variant: a = min(pdf(y)/pdf(x), 1); y if u <= a, else x
MoveWith(tbl, cx, cy, cu) == IF Le(cu, Ratio(tbl[cy], tbl[cx])) THEN cy ELSE cx

\* a = min(target_dist.pdf(y)/target_dist.pdf(x), 1); if u <= a: ... in both,
\* the target being one stateless function
PairDecide ==
    /\ pr.pc = "decide"
    /\ \E f \in [PairNew -> PiVals] :
          LET tbl == f @@ pr.pdf
              na == MoveWith(tbl, pr.xa, pr.ya, pr.u)
              nb == MoveWith(tbl, pr.xb, pr.yb, pr.u)
          IN  pr' = [pr EXCEPT !.pc = "loop", !.pdf = tbl,
                               !.xa = na, !.sa = Append(pr.sa, na),
                               !.xb = nb, !.sb = Append(pr.sb, nb)]
    /\ UNCHANGED single
    /\ UNCHANGED notPair

\* the target raises at a point evaluated for the first time
PairEvalFail ==
    /\ pr.pc = "decide"
    /\ PairNew # {}
    /\ pr' = [pr EXCEPT !.pc = "error"]
    /\ UNCHANGED single
    /\ UNCHANGED notPair

NextPair ==
    \/ PairCall
    \/ PairLoop
    \/ PairReturn
    \/ PairPropose
    \/ PairProposeFail
    \/ PairDrawU
    \/ PairDecide
    \/ PairEvalFail

SpecPair == Init /\ [][NextPair]_vars

\* ---- a series of calls of MH ----

MaxCalls == 2

\* the state of every other part of the notebooks
notCalls == <<gn, cfg, ch, imp, pr>>

\* the notebook does not seed the generator: it starts in any state
InitSeries ==
    /\ pc = "idle"
    /\ variant = "dist"
    /\ initial = 0 /\ n = 0 /\ sigma = 1
    /\ pdf = <<>>
    /\ x = 0 /\ y = 0
    /\ u = NoVal /\ a = NoVal /\ py = NoVal /\ px = NoVal
    /\ i = 0
    /\ samples = <<>>
    /\ xprev = 0
    /\ offs = <<>>
    /\ nProp = 0 /\ nUnif = 0 /\ nEval = 0
    /\ result = NoResult
    /\ err = "none"
    /\ gn = Unbound
    /\ cfg = NoCfg /\ ch = ChainsOff
    /\ imp = NoImp /\ pr = NoPair /\ mhc = NoCalls
    /\ rng \in Seeds

\* faulty variant of SeriesCall: the list is created once (a default argument
\* samples=[] or a module-level list) and every call appends to it
SeriesCallShared ==
    /\ mhc.pc \in {"off", "idle"}
    /\ Len(mhc.rets) < MaxCalls
    /\ \E x0 \in Initials, cnt \in Ns :
          mhc' = [mhc EXCEPT !.pc = "loop",
                    !.heap = IF mhc.heap = <<>> THEN <<<<>>>> ELSE mhc.heap,
                    !.samples = 1,
                    !.n = cnt, !.i = 0, !.x = x0]
    /\ UNCHANGED single
    /\ UNCHANGED rng
    /\ UNCHANGED notCalls

\* samples = MH(initial, target, proposal, N): inside, samples = [] makes a
\* new list object and binds the local name to it; x = initial
SeriesCall ==
    /\ mhc.pc \in {"off", "idle"}
    /\ Len(mhc.rets) < MaxCalls
    /\ \E x0 \in Initials, cnt \in Ns :
          mhc' = [mhc EXCEPT !.pc = "loop",
                    !.heap = Append(mhc.heap, <<>>),
                    !.samples = Len(mhc.heap) + 1,
                    !.n = cnt, !.i = 0, !.x = x0]
    /\ UNCHANGED single
    /\ UNCHANGED rng
    /\ UNCHANGED notCalls

\* one iteration of the loop: the proposal and u are the next two draws of
\* the global generator; decide; append to the list the local name refers to
SeriesIterate ==
    /\ mhc.pc = "loop"
    /\ mhc.i < mhc.n
    /\ LET d == NormalDraw(rng)
           v == UniformDraw(NextState(rng))
           nx == ChainMove(mhc.x, mhc.x + d, v)
       IN  mhc' = [mhc EXCEPT !.i = mhc.i + 1, !.x = nx,
                     !.heap[mhc.samples] = Append(mhc.heap[mhc.samples], nx)]
    /\ rng' = NextState(NextState(rng))
    /\ UNCHANGED single
    /\ UNCHANGED notCalls

\* return samples: the caller receives the list object
SeriesReturn ==
    /\ mhc.pc = "loop"
    /\ ~(mhc.i < mhc.n)
    /\ mhc' = [mhc EXCEPT !.pc = "idle",
                 !.rets = Append(mhc.rets, [obj |-> mhc.samples, n |-> mhc.n])]
    /\ UNCHANGED single
    /\ UNCHANGED rng
    /\ UNCHANGED notCalls

NextSeries ==
    \/ SeriesCall
    \/ SeriesIterate
    \/ SeriesReturn

SpecSeries == InitSeries /\ [][NextSeries]_vars

\* ------------------------------------------------- vocabulary of the claims
\* an accept/reject decision has been taken and its registers are in place
Decided == pc \in {"loop", "done"} /\ i >= 1

\* both density values of the iteration are finite and pi(x) is positive, so
\* the quotient pi(y)/pi(x) is an ordinary rational number
RatioDefined == IsFin(py) /\ IsFin(px) /\ px[2] > 0

\* min(1, pi(y)/pi(x)) computed over the rationals
MathA ==
    IF py[2] * px[3] >= py[3] * px[2]
       THEN One
       ELSE Fin(py[2] * px[3], py[3] * px[2])

\* u <= min(1, pi(y)/pi(x)) over the rationals
UAtMostA == u[2] * MathA[3] <= MathA[2] * u[3]

\* the comparison u <= a came out false: a is nan, or u exceeds a
RejectedStep == a = NaN \/ (IsFin(a) /\ u[2] * a[3] > a[2] * u[3])

RECURSIVE SumTo(_, _)
SumTo(s, k) == IF k = 0 THEN 0 ELSE SumTo(s, k - 1) + s[k]

\* every density value seen so far is one and the same positive finite number
ConstPos ==
    \A p \in DOMAIN pdf, q \in DOMAIN pdf :
        pdf[p] = pdf[q] /\ IsFin(pdf[p]) /\ pdf[p][2] > 0

\* ---------------------------------------------------------------- claims

\* C1 Length invariant: one element is appended per iteration whether the
\* proposal was accepted or rejected, and for every n >= 0 the call returns
\* a sequence of exactly n elements.
C1_Length ==
    /\ (pc = "loop" => Len(samples) = i)
    /\ (pc = "done" /\ n >= 0 => result[1] = "seq" /\ Len(result[2]) = n)

C1_Witness ==
    /\ pc = "done" /\ n = 2
    /\ Len(result[2]) = 2
    /\ offs[1] # 0 /\ result[2][1] = initial
    /\ result[2][2] # initial

\* C2 Accept/reject rule: with current state x, candidate y and draw u, the
\* ratio is a = min(1, pi(y)/pi(x)); if u <= a (inclusive) the state becomes
\* y, otherwise it stays x.
C2_AcceptReject ==
    (Decided /\ RatioDefined) =>
        /\ a = MathA
        /\ (UAtMostA => x = y /\ samples[i] = y)
        /\ (~UAtMostA => x = xprev)

C2_Witness ==
    /\ Decided /\ RatioDefined
    /\ a = Fin(1, 2) /\ u = a
    /\ y # xprev /\ x = y

\* C3 Trajectory content: after every decision the last element of the
\* sequence is the current state x and the sequence has one element per
\* decision (x0 is no leading element); elements already appended never
\* change, so element k is the state right after the k-th decision.
C3_Trajectory ==
    [][ /\ (pc' \in {"loop", "done"} =>
               /\ Len(samples') = i'
               /\ (i' >= 1 => samples'[i'] = x'))
        /\ \A k \in 1 .. Len(samples) :
               Len(samples') >= k /\ samples'[k] = samples[k] ]_vars

C3_Witness ==
    /\ Decided /\ i = 2
    /\ samples[1] # initial
    /\ samples[2] # samples[1]
    /\ samples[2] = x

\* C4 Rejection preserves state: when the proposal is rejected (in particular
\* u = 1 with pi(y)/pi(x) < 1) an element is still appended, it is exactly
\* the prior state, and x is left unchanged.
C4_RejectKeepsState ==
    (Decided /\ RejectedStep) =>
        /\ x = xprev
        /\ Len(samples) = i
        /\ samples[i] = xprev

C4_Witness ==
    /\ Decided /\ i = 2
    /\ RatioDefined /\ py[2] * px[3] < px[2] * py[3]
    /\ u = One
    /\ y # xprev
    /\ samples[i] = xprev /\ x = xprev

\* C5 Always-accept edge case: with a constant positive density every
\* proposal is accepted for every u in [0,1], so the sequence is
\* x0+d1, x0+d1+d2, ..., the running sums of the proposal offsets.
C5_AlwaysAccept ==
    (pc \in {"loop", "done"} /\ ConstPos) =>
        /\ Len(samples) = Len(offs)
        /\ \A k \in 1 .. Len(samples) : samples[k] = initial + SumTo(offs, k)

C5_Witness ==
    /\ pc = "done" /\ n = 2 /\ ConstPos
    /\ offs = <<1, 1>>
    /\ u = One
    /\ result = <<"seq", <<initial + 1, initial + 2>>>>

\* the density value is nan or infinite
NonFinite(v) == v = NaN \/ v = Inf

\* pi(x) = 0 at the current state and pi(y) > 0 at the candidate
ZeroEscape == px = Zero /\ IsPos(py)

\* pi(x) = 0 and pi(y) = 0
BothZero == px = Zero /\ py = Zero

\* C6 Zero-density escape: in an iteration with pi(x) = 0 and pi(y) > 0 the
\* division does not fail, a is 1 and the move is accepted for every u in
\* [0,1].
C6_ZeroEscape ==
    [][ /\ (pc = "ratio" /\ ZeroEscape) => (pc' = "decide" /\ a' = One)
        /\ (pc = "decide" /\ ZeroEscape) =>
               /\ pc' = "loop"
               /\ x' = y
               /\ samples' = Append(samples, y) ]_vars

C6_Witness ==
    /\ Decided /\ ZeroEscape
    /\ u = One
    /\ y # xprev /\ x = y /\ samples[i] = y

\* C7 (as stated) Both-zero policy: in an iteration with pi(x) = 0 and
\* pi(y) = 0 the ratio a is 0, so the step is accepted only when u = 0.
C7_Original ==
    (Decided /\ BothZero) =>
        /\ a = Zero
        /\ (u = Zero => x = y)
        /\ (u # Zero => x = xprev)

\* C7 (amended) Both-zero: in an iteration with pi(x) = 0 and pi(y) = 0 the
\* sampler does not fail, the ratio a is nan (0/0), and the step is rejected
\* for every u in [0,1], u = 0 included.
C7_BothZeroNaN ==
    [][ /\ (pc = "ratio" /\ BothZero) => (pc' = "decide" /\ a' = NaN)
        /\ (pc = "decide" /\ BothZero) =>
               /\ pc' = "loop"
               /\ x' = x
               /\ samples' = Append(samples, x) ]_vars

C7_Witness ==
    /\ Decided /\ BothZero
    /\ u = Zero /\ a = NaN
    /\ y # xprev /\ x = xprev /\ samples[i] = xprev

\* C8 (as stated) Invalid configuration fails fast: a call with sigma <= 0
\* or n < 0 never runs an iteration, takes no draw, evaluates no density
\* and returns no sequence.
C8_Original ==
    (pc # "idle" /\ (sigma <= 0 \/ n < 0)) =>
        /\ pc # "done"
        /\ i = 0 /\ nProp = 0 /\ nUnif = 0 /\ nEval = 0
        /\ result = NoResult

\* C8 (amended) No validation up front: with n < 0 the call runs no
\* iteration (no draw, no density evaluation) and returns the empty sequence
\* without an error; with sigma < 0 and n >= 1 it ends in an error raised by
\* the proposal draw of the first iteration, before any uniform draw or
\* density evaluation, and nothing is returned; sigma = 0 raises no error.
C8_NoValidation ==
    /\ (pc # "idle" /\ n < 0) =>
           /\ pc \in {"loop", "done"}
           /\ i = 0 /\ nProp = 0 /\ nUnif = 0 /\ nEval = 0
           /\ err = "none"
           /\ (pc = "done" => result = <<"seq", <<>>>>)
    /\ (sigma < 0 /\ n >= 1) => pc # "done"
    /\ (pc = "error" /\ sigma < 0) =>
           /\ err = "ValueError"
           /\ i = 1 /\ nProp = 1 /\ nUnif = 0 /\ nEval = 0
           /\ result = NoResult
    /\ (sigma = 0) => err # "ValueError"

C8_Witness ==
    /\ pc = "done" /\ n < 0 /\ sigma < 0
    /\ result = <<"seq", <<>>>>
    /\ nProp = 0

\* C9 (as stated) Non-finite density values are surfaced: a step in which
\* the density was nan or infinite is never decided; the run ends in an
\* error instead.
C9_Original ==
    (pc \in {"decide", "loop", "done"} /\ i >= 1) =>
        (~NonFinite(py) /\ ~NonFinite(px))

\* the ratio the division yields when a density value is not finite
NonFiniteA ==
    CASE py = NaN \/ px = NaN -> NaN
      [] py = Inf /\ px = Inf -> NaN
      [] py = Inf -> One
      [] OTHER -> Zero

\* C9 (amended) Non-finite density values are not surfaced: the run does not
\* end in an error but goes on; the step is rejected for every u when either
\* value is nan or both are infinite, accepted for every u when only pi(y)
\* is infinite, and accepted only for u = 0 when only pi(x) is infinite.
C9_NonFiniteSilent ==
    [][ /\ (pc = "ratio" /\ (NonFinite(py) \/ NonFinite(px))) =>
               (pc' = "decide" /\ a' = NonFiniteA)
        /\ (pc = "decide" /\ (NonFinite(py) \/ NonFinite(px))) =>
               /\ pc' = "loop"
               /\ LET acc == NonFiniteA = One \/ (NonFiniteA = Zero /\ u = Zero)
                  IN /\ x' = (IF acc THEN y ELSE x)
                     /\ samples' = Append(samples, IF acc THEN y ELSE x) ]_vars

C9_Witness ==
    /\ pc = "done" /\ n = 2
    /\ py = NaN /\ px = Inf
    /\ u = Zero
    /\ y # xprev /\ x = xprev
    /\ Len(result[2]) = 2

\* C10 All-or-nothing result: nothing is visible to the caller before the
\* call returns; a call ends by returning the complete sequence of length n
\* or in an error, and when the density evaluation fails in iteration k the
\* k-1 elements appended so far are not returned.
C10_AllOrNothing ==
    /\ (pc # "done" => result = NoResult)
    /\ (pc = "done" /\ n >= 0 =>
           result = <<"seq", samples>> /\ Len(samples) = n)

C10_Witness ==
    /\ pc = "error" /\ err = "DensityError"
    /\ i = 2 /\ Len(samples) = 1
    /\ result = NoResult

\* C11 Density errors propagate without retry: when the density raises in
\* iteration k the run ends there with that error and stays ended; the
\* failed evaluation is not repeated (k proposal draws, k uniform draws and
\* 2k-1 or 2k evaluations have happened, k-1 elements were appended) and no
\* later draw or iteration follows.
C11_NoRetry ==
    (err = "DensityError") =>
        /\ pc = "error"
        /\ i >= 1
        /\ nProp = i /\ nUnif = i
        /\ nEval \in {2 * i - 1, 2 * i}
        /\ Len(samples) = i - 1

C11_Witness ==
    /\ pc = "error" /\ err = "DensityError"
    /\ i = 2 /\ nEval = 3
    /\ nProp = 2 /\ nUnif = 2

\* C12 Boundary case n = 0: the call returns the empty sequence, takes no
\* proposal draw and no uniform draw and never evaluates the density.
C12_ZeroIterations ==
    (pc # "idle" /\ n = 0) =>
        /\ pc \in {"loop", "done"}
        /\ i = 0 /\ nProp = 0 /\ nUnif = 0 /\ nEval = 0
        /\ DOMAIN pdf = {}
        /\ x = initial
        /\ (pc = "done" => result = <<"seq", <<>>>>)

C12_Witness ==
    /\ pc = "done" /\ n = 0 /\ sigma > 0
    /\ result = <<"seq", <<>>>>
    /\ nEval = 0

\* C13 Determinism under seed control: every element of the output is a
\* function of the element before it (x0 for the first), of the offset and
\* the uniform number drawn in that iteration and of the density, so two
\* runs with the same inputs and the same draws give the same sequence.
C13_Determinism ==
    Decided =>
        /\ xprev = (IF i = 1 THEN initial ELSE samples[i - 1])
        /\ y = xprev + offs[i]
        /\ y \in DOMAIN pdf /\ xprev \in DOMAIN pdf
        /\ py = pdf[y] /\ px = pdf[xprev]
        /\ samples[i] = (IF Le(u, Ratio(pdf[y], pdf[xprev])) THEN y ELSE xprev)

C13_Witness ==
    /\ pc = "done" /\ n = 2
    /\ u = Fin(1, 2) /\ a = Fin(1, 2)
    /\ samples[1] # initial
    /\ samples[2] = y /\ y # xprev

\* C14 The iteration count is the caller's argument: a call
\* MH(initial, target, proposal, N) runs its loop exactly N times (no times
\* for N <= 0), taking the count from its fourth parameter and from no name
\* outside the function.
C14_CountIsArgument ==
    /\ (pc = "done" => i = (IF n > 0 THEN n ELSE 0))
    /\ err # "NameError"

\* C15 No side effects on the caller: once called, no step of MH changes
\* the caller's initial value, the proposal scale, the iteration count, a
\* density value already observed, or a module-level name; only the draw
\* counts of the random source move, and they only grow.
C15_NoSideEffects ==
    [][ (pc # "idle") =>
            /\ initial' = initial
            /\ sigma' = sigma
            /\ n' = n
            /\ variant' = variant
            /\ outer' = outer
            /\ \A p \in DOMAIN pdf : p \in DOMAIN pdf' /\ pdf'[p] = pdf[p]
            /\ nProp' >= nProp /\ nUnif' >= nUnif ]_vars

C15_Witness ==
    /\ pc = "done" /\ n = 2
    /\ initial = 1 /\ x # initial
    /\ sigma = 1
    /\ Cardinality(DOMAIN pdf) = 3

\* C16 Two density evaluations per iteration: each iteration evaluates the
\* density exactly twice, first at the candidate y and then at the current
\* state x, so a completed run of n iterations has made 2n evaluations.
C16_TwoEvaluations ==
    /\ (pc \in {"propose", "uniform", "evalY"} => nEval = 2 * (i - 1))
    /\ (pc = "evalX" => nEval = 2 * i - 1)
    /\ (pc \in {"ratio", "decide", "loop", "done"} => nEval = 2 * i)
    /\ (Decided => py = pdf[y] /\ px = pdf[xprev])
    /\ (pc = "done" /\ n >= 0 => nEval = 2 * n)

C16_Witness ==
    /\ pc = "done" /\ n = 2
    /\ nEval = 4
    /\ y = xprev
    /\ Cardinality(DOMAIN pdf) = 1

\* C17 Termination without early exit: every call eventually ends, by
\* returning or in an error raised by the density or by the proposal draw;
\* when it returns it has run exactly n iterations (n >= 0), whatever the
\* accept/reject outcomes were.
C17_Terminates ==
    /\ []((pc = "done" /\ n >= 0) =>
             (i = n /\ nProp = n /\ nUnif = n /\ Len(samples) = n))
    /\ []((pc = "error") => (err \in {"DensityError", "ValueError"}))
    /\ ((pc # "idle") ~> (pc \in {"done", "error"}))

C17_Witness ==
    /\ pc = "done" /\ n = 2 /\ i = 2
    /\ samples[1] = initial /\ samples[2] = initial
    /\ offs[1] # 0 /\ offs[2] # 0

\* product of two finite values, as the exact rational
Mul(p, q) == Fin(p[2] * q[2], p[3] * q[3])

\* finite and strictly positive density value
FinPos(v) == IsFin(v) /\ v[2] > 0

\* C19 Detailed balance of the acceptance rule: whenever the sampler has
\* computed a for a pair x, y with pi(x) > 0 and pi(y) > 0,
\* pi(x) * a(x,y) = pi(y) * a(y,x), where a(y,x) is the ratio the sampler
\* computes for the reverse move.
C19_DetailedBalance ==
    (pc = "decide" /\ FinPos(py) /\ FinPos(px)) =>
        /\ py = pdf[y] /\ px = pdf[x]
        /\ Mul(px, a) = Mul(py, Ratio(px, py))

C19_Witness ==
    /\ pc = "decide"
    /\ px = Fin(2, 1) /\ py = Fin(1, 1)
    /\ a = Fin(1, 2)
    /\ Ratio(px, py) = One

\* the generator state after k draws from state s
RECURSIVE StateAfter(_, _)
StateAfter(s, k) == IF k = 0 THEN s ELSE StateAfter(NextState(s), k - 1)

\* the samples of a chain that starts at cx and receives the draws made in
\* the generator states gs (proposal, uniform, proposal, uniform, ...)
RECURSIVE RunWith(_, _)
RunWith(cx, gs) ==
    IF Len(gs) < 2 THEN <<>>
    ELSE LET nx == ChainMove(cx, cx + cfg.sigma * NormalDraw(gs[1]),
                             UniformDraw(gs[2]))
         IN  <<nx>> \o RunWith(nx, SubSeq(gs, 3, Len(gs)))

\* the generator states of k consecutive draws starting in state s
RECURSIVE Consecutive(_, _)
Consecutive(s, k) ==
    IF k = 0 THEN <<>> ELSE <<s>> \o Consecutive(NextState(s), k - 1)

\* the output of chain c when the chains run one after the other
SeqRun(c) ==
    RunWith(CHOOSE x0 \in Initials : TRUE,
            Consecutive(StateAfter(cfg.seed, 2 * cfg.n * (c - 1)), 2 * cfg.n))

C21_DrawOrder ==
    /\ (pc = "propose" => nProp = i - 1 /\ nUnif = i - 1)
    /\ (pc = "uniform" =>
           /\ nProp = i /\ nUnif = i - 1
           /\ y = x + offs[i]
           /\ nEval = 2 * (i - 1))
    /\ (pc = "evalY" => nProp = i /\ nUnif = i /\ nEval = 2 * (i - 1))
    /\ (pc \in {"evalX", "ratio", "decide", "loop", "done"} =>
           nProp = i /\ nUnif = i)
    /\ (pc = "done" /\ n >= 0 => nProp = n /\ nUnif = n)

C21_Witness ==
    /\ pc = "done" /\ n = 2
    /\ a = One /\ u = Fin(1, 2)
    /\ nProp = 2 /\ nUnif = 2
    /\ samples[1] = initial + offs[1] /\ offs[1] # 0

\* the element before element k of the sequence: x0 for the first
PrevOf(k) == IF k = 1 THEN initial ELSE samples[k - 1]

\* C24 Step relation of the trajectory: every element of the sequence is
\* either equal to the element before it (x0 for the first) or equal to that
\* element plus the proposal offset drawn in its iteration.
C24_StepRelation ==
    /\ Len(offs) >= Len(samples)
    /\ \A k \in 1 .. Len(samples) :
           \/ samples[k] = PrevOf(k)
           \/ samples[k] = PrevOf(k) + offs[k]

C24_Witness ==
    /\ pc = "done" /\ n = 2
    /\ offs[1] # 0 /\ offs[2] # 0
    /\ samples[1] = initial + offs[1]
    /\ samples[2] = samples[1]

\* C25 Uphill moves are always accepted: in an iteration with
\* pi(y) >= pi(x) > 0 (pi(x) finite) the ratio is 1 and the candidate is
\* accepted for every u in [0,1], u = 1 included.
C25_UphillAccepted ==
    (Decided /\ FinPos(px) /\ Le(px, py)) =>
        /\ a = One
        /\ x = y
        /\ samples[i] = y

C25_Witness ==
    /\ Decided
    /\ px = Fin(1, 1) /\ py = Fin(2, 1)
    /\ u = One
    /\ y # xprev /\ x = y

\* C26 Positive-density invariant: a decision taken in a state with
\* pi(x) > 0 leaves the chain in a state whose density is not zero.
C26_PositiveStays ==
    (Decided /\ IsPos(px)) => (pdf[x] # Zero)

\* C28 Range of the acceptance ratio: with pi(x) > 0 and both density values
\* finite and non-negative, 0 <= a <= 1, and a = 1 exactly when
\* pi(y) >= pi(x).
C28_RatioRange ==
    ((pc = "decide" \/ Decided) /\ RatioDefined) =>
        /\ IsFin(a)
        /\ Le(Zero, a) /\ Le(a, One)
        /\ (a = One <=> Le(px, py))

C28_Witness ==
    /\ pc = "decide" /\ RatioDefined
    /\ py = Zero /\ a = Zero
    /\ px = Fin(2, 1)

\* C22 Importance weight: the weight of a sample x is 0 when x < mu and the
\* ratio p(x)/q(x) when x >= mu, the boundary x = mu being on the non-zero
\* side.
C22_ImportanceWeight ==
    \A j \in 1 .. Len(imp.ws) :
        LET xj == imp.qx_samples[j]
            w == imp.ws[j]
        IN  /\ (xj < imp.mu => w = Zero)
            /\ (xj >= imp.mu =>
                   /\ IsFin(w)
                   /\ Mul(w, QPdf(xj, imp.mu)) = PPdf(imp.target, xj))

C22_Witness ==
    /\ imp.pc = "done" /\ imp.N = 2
    /\ imp.qx_samples[1] = imp.mu /\ imp.ws[1] # Zero
    /\ imp.qx_samples[2] < imp.mu /\ imp.ws[2] = Zero

\* the sum of the weights of the first k samples, computed from the samples
RECURSIVE WeightSum(_)
WeightSum(k) ==
    IF k = 0 THEN Zero
    ELSE Add(WeightSum(k - 1),
             importance(imp.qx_samples[k], imp.mu, imp.target))

\* C23 Importance-sampling estimate: MCE times N is the sum of the weights
\* of all N samples drawn, those of weight 0 counted in N.
C23_EstimateOverAll ==
    (imp.pc = "done") =>
        /\ imp.N >= 1
        /\ Len(imp.qx_samples) = imp.N
        /\ Len(imp.ws) = imp.N
        /\ IsFin(imp.MCE)
        /\ Mul(imp.MCE, Fin(imp.N, 1)) = WeightSum(imp.N)

C23_Witness ==
    /\ imp.pc = "done" /\ imp.N = 2
    /\ imp.qx_samples[1] < imp.mu
    /\ imp.qx_samples[2] > imp.mu
    /\ imp.ws[2] # Zero
    /\ Add(imp.MCE, imp.MCE) = imp.ws[2]

Returned(k) == mhc.heap[mhc.rets[k].obj]

\* C29 Fresh result per call: every call builds its sequence in a list of
\* its own that starts empty, so a returned sequence holds exactly the
\* elements of its own call, no two calls return the same list, and no
\* later step changes a sequence already returned.
C29_FreshResult ==
    /\ [](\A k \in 1 .. Len(mhc.rets) :
             /\ Len(Returned(k)) = (IF mhc.rets[k].n > 0 THEN mhc.rets[k].n ELSE 0)
             /\ \A j \in 1 .. Len(mhc.rets) :
                    j # k => mhc.rets[j].obj # mhc.rets[k].obj
             /\ (mhc.pc = "loop" => mhc.samples # mhc.rets[k].obj))
    /\ [](mhc.pc = "loop" => Len(mhc.heap[mhc.samples]) = mhc.i)
    /\ [][\A k \in 1 .. Len(mhc.rets) :
             /\ Len(mhc'.rets) >= k /\ mhc'.rets[k] = mhc.rets[k]
             /\ mhc'.heap[mhc.rets[k].obj] = Returned(k)]_vars

C29_Witness ==
    /\ mhc.pc = "idle" /\ Len(mhc.rets) = 2
    /\ mhc.rets[1].n = 2 /\ mhc.rets[2].n = 1
    /\ Returned(1)[1] # Returned(2)[1]
    /\ Returned(1)[2] # Returned(1)[1]

====
